---- MODULE Spec2Model ----
(***************************************************************************)
(* A model of app.py: the marketplace listing scan                         *)
(* (parse_top20_from_category_page), the detail fetch with retries         *)
(* (fetch_item_details_amzn), the record assembly of the fetch handler and *)
(* the catalog matcher (fetch_microcenter_candidates).                     *)
(*                                                                         *)
(* URLs are sequences of tokens.  A token is a literal piece of text or a  *)
(* product code; the regular expressions of the source are evaluated on    *)
(* the token sequence.  Texts of a detail page are sequences of words.     *)
(***************************************************************************)
EXTENDS Integers, Sequences, FiniteSets, TLC

(* ------------------------------------------------------------------ *)
(* Bounds of the model                                                  *)
(* ------------------------------------------------------------------ *)
MaxLinks == 31          \* longest listing page, in anchors
MaxCalls == 2           \* calls of the catalog matcher in one session
MaxFailing == 1         \* candidate pages whose request fails in one call
MaxClock == 1800        \* the clock stops here, in seconds

(* ------------------------------------------------------------------ *)
(* Program constants                                                    *)
(* ------------------------------------------------------------------ *)
Top20 == 20             \* if len(items) >= 20: break
retries == 2            \* fetch_item_details_amzn(..., retries=2, ...)

(* ------------------------------------------------------------------ *)
(* URL tokens                                                           *)
(* ------------------------------------------------------------------ *)
\* a literal piece of a URL
T(s) == [k |-> "lit", s |-> s, id |-> 0]
\* the id-th product code: ten characters of [A-Z0-9]
A(id) == [k |-> "asin", s |-> "", id |-> id]
\* the same ten characters in lower case
AL(id) == [k |-> "asinlc", s |-> "", id |-> id]
\* a code of nine characters, and one of eleven
A9(id) == [k |-> "short", s |-> "", id |-> id]
A11(id) == [k |-> "long", s |-> "", id |-> id]

Host == T("https://www.amazon.com")
None == [k |-> "none", s |-> "", id |-> 0]

\* the first character of a token is "/" or "?"  (the class [/?])
StartsSlashOrQ(t) ==
    t.k = "lit" /\ t.s \in {"/dp/", "/gp/product/", "/gp/slredirect/", "/Widget-Pro",
                            "/ref=sr", "/gp/help", "?ASIN=", "?asin=", "?ref=x"}
\* the first character of a token is "&"
StartsAmp(t) == t.k = "lit" /\ t.s \in {"&ASIN=", "&asin=", "&tag=x"}
\* the first character of a token is "/"
StartsSlash(t) ==
    t.k = "lit" /\ t.s \in {"/dp/", "/gp/product/", "/gp/slredirect/", "/Widget-Pro",
                            "/ref=sr", "/gp/help"}

Min(S) == CHOOSE x \in S : \A y \in S : x <= y

\* positions where  <prefix>([A-Z0-9]{10})(?:[/?]|$)  matches
MatchPath(url, prefix) ==
    { j \in 1..Len(url) :
        /\ url[j] = T(prefix)
        /\ j + 1 <= Len(url)
        /\ url[j+1].k = "asin"
        /\ (j + 1 = Len(url) \/ StartsSlashOrQ(url[j+2])) }

\* positions where  [?&]ASIN=([A-Z0-9]{10})(?:&|$)  matches, ignoring case
MatchQuery(url) ==
    { j \in 1..Len(url) :
        /\ url[j] \in {T("?ASIN="), T("&ASIN="), T("?asin="), T("&asin=")}
        /\ j + 1 <= Len(url)
        /\ url[j+1].k \in {"asin", "asinlc"}
        /\ (j + 1 = Len(url) \/ StartsAmp(url[j+2])) }

\* ASIN_REGEXES tried in order, each by search (leftmost match)
extract_asin_from_url(url) ==
    IF MatchPath(url, "/dp/") # {} THEN url[Min(MatchPath(url, "/dp/")) + 1]
    ELSE IF MatchPath(url, "/gp/product/") # {}
         THEN url[Min(MatchPath(url, "/gp/product/")) + 1]
    ELSE IF MatchQuery(url) # {} THEN url[Min(MatchQuery(url)) + 1]
    ELSE None

(* ------------------------------------------------------------------ *)
(* Listing pages: the anchors of the page, in document order            *)
(* ------------------------------------------------------------------ *)
NShapes == 11

\* the product another product's link mentions in its path
OtherId(id) == (id % 3) + 1

\* the href of a link to product id, in the decoration numbered shape
Href(shape, id) ==
    CASE shape = 1 -> <<T("/dp/"), A(id)>>
      [] shape = 2 -> <<Host, T("/Widget-Pro"), T("/dp/"), A(id), T("/ref=sr")>>
      [] shape = 3 -> <<T("/gp/product/"), A(id), T("?ref=x")>>
      [] shape = 4 -> <<T("/gp/slredirect/"), T("?ASIN="), A(id), T("&tag=x")>>
      [] shape = 5 -> <<T("/dp/"), A(id), T("?ref=x")>>
      [] shape = 6 -> <<T("/dp/"), A9(id)>>
      [] shape = 7 -> <<T("/gp/help")>>
      [] shape = 8 -> <<T("/Widget-Pro"), T("?asin="), AL(id)>>
      [] shape = 9 -> <<T("/gp/product/"), A(OtherId(id)), T("/dp/"), A(id)>>
      [] shape = 10 -> <<T("ref"), T("/dp/"), A(id)>>
      [] OTHER -> <<T("/dp/"), A11(id), T("/ref=sr")>>

\* str.strip() on the texts of an anchor
Strip(s) == IF s = " " THEN "" ELSE IF s = " Widget " THEN "Widget" ELSE s

\* the anchor of a link: its href, visible text, image alt text, title attribute
Anchor(shape, id) ==
    [href |-> Href(shape, id),
     text |-> IF shape % 3 = 1 THEN " Widget " ELSE IF shape % 3 = 2 THEN " " ELSE "",
     alt |-> IF shape % 2 = 0 THEN "Picture" ELSE IF shape = 3 THEN " " ELSE "",
     title |-> IF shape % 4 = 3 THEN "Tip" ELSE ""]

\* a page of n anchors over m products: the products repeat with period m,
\* each round decorated d shapes further on
GenPage(n, m, d) ==
    [i \in 1..n |-> Anchor((((i - 1) + d * ((i - 1) \div m)) % NShapes) + 1,
                           ((i - 1) % m) + 1)]

Pages ==
    { GenPage(n, m, d) : n \in 0..MaxLinks, m \in {3, 7, MaxLinks}, d \in {1, 4} }

(* ------------------------------------------------------------------ *)
(* The web behind the links                                             *)
(* ------------------------------------------------------------------ *)
\* a URL that requests can send: it has a scheme
HasScheme(url) == url # <<>> /\ url[1] = Host

\* where the redirect-resolution request ends: a short link leads to the
\* product page, every other URL to itself
Redirect(url) ==
    IF \E j \in 1..Len(url) : url[j] = T("/gp/slredirect/")
    THEN <<Host, T("/dp/"), [extract_asin_from_url(url) EXCEPT !.k = "asin"]>>
    ELSE url

\* urljoin(final_url, href) if href.startswith("/") else href
ItemUrl(href) == IF href # <<>> /\ StartsSlash(href[1]) THEN <<Host>> \o href ELSE href

(* ------------------------------------------------------------------ *)
(* Detail pages                                                         *)
(* ------------------------------------------------------------------ *)
\* a text is a sequence of words; " " is white space, "$" the currency sign
IsAmount(w) == w \in {"19.99", "24.50", "5.00", "9.99", "1,299.00"}

\* get_text(strip=True): white space at both ends removed
RECURSIVE LStrip(_)
LStrip(t) == IF t # <<>> /\ Head(t) = " " THEN LStrip(Tail(t)) ELSE t
RECURSIVE RStrip(_)
RStrip(t) == IF t # <<>> /\ t[Len(t)] = " " THEN RStrip(SubSeq(t, 1, Len(t) - 1)) ELSE t
StripText(t) == RStrip(LStrip(t))

\* str.replace(" ", "")
RECURSIVE NoSpaces(_)
NoSpaces(t) ==
    IF t = <<>> THEN <<>>
    ELSE IF Head(t) = " " THEN NoSpaces(Tail(t))
    ELSE <<Head(t)>> \o NoSpaces(Tail(t))

\* the end of the run of white space that starts at position j
RECURSIVE SkipSpaces(_, _)
SkipSpaces(t, j) == IF j <= Len(t) /\ t[j] = " " THEN SkipSpaces(t, j + 1) ELSE j

\* \$\s*\d[\d,]*(?:\.\d{2})?  matched at position j
MoneyAt(t, j) ==
    /\ t[j] = "$"
    /\ SkipSpaces(t, j + 1) <= Len(t)
    /\ IsAmount(t[SkipSpaces(t, j + 1)])

\* re.search of the money pattern: the matched text, <<>> when there is none
SearchMoney(t) ==
    LET hits == { j \in 1..Len(t) : MoneyAt(t, j) }
    IN IF hits = {} THEN <<>> ELSE SubSeq(t, Min(hits), SkipSpaces(t, Min(hits) + 1))

EmptySoup ==
    [containers |-> <<>>, offscreens |-> <<>>, metaPrice |-> <<>>, ogPrice |-> <<>>,
     ogImage |-> "", linkImage |-> "", landing |-> <<>>, wrapper |-> <<>>]

\* the price containers of candidate_ids, in that order; each with the text
\* of its span.a-offscreen (raw) and its own text
RECURSIVE PriceFromContainers(_)
PriceFromContainers(cs) ==
    IF cs = <<>> THEN <<>>
    ELSE IF StripText(Head(cs).off) # <<>> THEN StripText(Head(cs).off)
    ELSE IF SearchMoney(StripText(Head(cs).txt)) # <<>>
         THEN NoSpaces(SearchMoney(StripText(Head(cs).txt)))
    ELSE PriceFromContainers(Tail(cs))

\* for off in soup.select("span.a-offscreen"): first text matching ^\$\s*\d
RECURSIVE PriceFromOffscreens(_)
PriceFromOffscreens(os) ==
    IF os = <<>> THEN <<>>
    ELSE IF StripText(Head(os)) # <<>> /\ MoneyAt(StripText(Head(os)), 1)
         THEN NoSpaces(StripText(Head(os)))
    ELSE PriceFromOffscreens(Tail(os))

\* c if c.startswith("$") else f"${c}"
WithDollar(c) == IF Head(c) = "$" THEN c ELSE <<"$">> \o c

extract_price_from_soup_amzn(soup) ==
    IF PriceFromContainers(soup.containers) # <<>> THEN PriceFromContainers(soup.containers)
    ELSE IF PriceFromOffscreens(soup.offscreens) # <<>>
         THEN PriceFromOffscreens(soup.offscreens)
    ELSE IF soup.metaPrice # <<>> THEN WithDollar(soup.metaPrice)
    ELSE IF soup.ogPrice # <<>> THEN WithDollar(soup.ogPrice)
    ELSE <<>>

\* re.search(r'"(https:[^"]+)"\s*:', val) on a data-a-dynamic-image value
DynKey(val) == IF val = "{\"https://img/dyn\":[1,1]}" THEN "https://img/dyn" ELSE ""

\* the attributes of #landingImage in the order data-old-hires, src,
\* data-a-dynamic-image; a value of white space only is passed over
LandingImage(l) ==
    IF Strip(l.hires) # "" THEN l.hires
    ELSE IF Strip(l.src) # "" THEN l.src
    ELSE IF Strip(l.dyn) # "" THEN DynKey(l.dyn)
    ELSE ""

\* the attributes of #imgTagWrapperId img in the order data-old-hires, src
WrapperImage(w) == IF w.hires # "" THEN w.hires ELSE w.src

extract_image_from_soup_amzn(soup) ==
    IF soup.ogImage # "" THEN soup.ogImage
    ELSE IF soup.linkImage # "" THEN soup.linkImage
    ELSE IF soup.landing # <<>> /\ LandingImage(soup.landing[1]) # ""
         THEN LandingImage(soup.landing[1])
    ELSE IF soup.wrapper # <<>> THEN WrapperImage(soup.wrapper[1])
    ELSE ""

\* the detail pages the marketplace serves
SoupFull ==
    [EmptySoup EXCEPT !.containers = << [off |-> <<"$", "19.99">>, txt |-> <<"$", "19.99">>] >>,
                      !.ogImage = "https://img/og"]
SoupNoImage ==
    [EmptySoup EXCEPT !.offscreens = << <<"Save">>, <<" ", "$", " ", "24.50">> >>]
SoupNoPrice ==
    [EmptySoup EXCEPT !.landing = << [hires |-> "https://img/hires", src |-> "", dyn |-> ""] >>]
SoupMeta ==
    [EmptySoup EXCEPT !.metaPrice = <<"9.99">>,
                      !.wrapper = << [hires |-> "", src |-> "https://img/wrap", dyn |-> ""] >>]
SoupDyn ==
    [EmptySoup EXCEPT !.containers = << [off |-> <<>>, txt |-> <<"was">>],
                                        [off |-> <<" ">>, txt |-> <<"Price:", "$", " ", "5.00">>] >>,
                      !.landing = << [hires |-> " ", src |-> "",
                                      dyn |-> "{\"https://img/dyn\":[1,1]}"] >>]
Soups == <<SoupFull, SoupNoImage, SoupNoPrice, EmptySoup, SoupMeta, SoupDyn>>

\* products whose detail page answers 404, and products whose page fails
\* or changes from one request to the next
DeadIds == {5}
FlakyIds == {2}

\* what one attempt on a detail page can meet: err = "fetch" when get_soup
\* raises (network error, non-2xx status, time-out), err = "parse" when the
\* page arrives and reading it raises, err = "none" with the soup read
Exc(kind) == [err |-> kind, soup |-> EmptySoup]
Page(soup) == [err |-> "none", soup |-> soup]

DetailOutcomes(url) ==
    IF ~HasScheme(url) THEN {Exc("fetch")}
    ELSE LET id == extract_asin_from_url(url).id
         IN IF id \in DeadIds THEN {Exc("fetch")}
            ELSE IF id \in FlakyIds
                 THEN {Exc("fetch"), Exc("parse")} \cup { Page(Soups[j]) : j \in 1..Len(Soups) }
            ELSE {Page(Soups[(id % Len(Soups)) + 1])}

(* ------------------------------------------------------------------ *)
(* State of one press of "Fetch Top 20"                                 *)
(* ------------------------------------------------------------------ *)
VARIABLES
    pc,              \* where the fetch handler stands
    amz_url,         \* the text of the URL input: "" or the listing URL
    page,            \* the anchors of the listing page behind amz_url
    listing_fetch,   \* how the GET of the listing page ended: "none", "ok", "failed"
    redirect_failed, \* some redirect-resolution request has failed
    pos,             \* anchors of the page the loop has examined
    seen_asins,      \* parse_top20_from_category_page: seen_asins
    items,           \* parse_top20_from_category_page: items
    listing_exc,     \* parse_top20_from_category_page raised to the handler
    idx,             \* fetch handler: enumerate index of the item loop
    attempt,         \* fetch_item_details_amzn: attempt
    outcomes,        \* what the attempts on the current item have met, in order
    detail,          \* what fetch_item_details_amzn returned for the current item
    detail_exc,      \* fetch_item_details_amzn raised to the handler
    out_rows,        \* fetch handler: out_rows
    results,         \* st.session_state.results
    last,            \* the last network event: "none", "request" or "sleep"
    back_to_back,    \* a request was sent right after another request
    mc_cache,        \* the entries of st.cache_data for fetch_microcenter_candidates
    mc_now,          \* the clock, in seconds
    mc_calls,        \* calls of fetch_microcenter_candidates made so far
    mc_in,           \* the last call: its arguments and what its requests met
    mc_out,          \* the value the last call returned
    mc_requests,     \* the requests the last call sent
    mc_raised,       \* an exception left the last call
    pp_cands,        \* _pick_prices: the candidate list of the last call
    pp_calls,        \* calls of _pick_prices made so far
    pp_first,        \* the value the first call returned
    pp_out,          \* the value the last call returned
    sp_soup,         \* a detail page handed to the two extractors
    sp_read,         \* the extractors have been applied to sp_soup
    sp_price,        \* what extract_price_from_soup_amzn returned
    sp_image,        \* what extract_image_from_soup_amzn returned
    ss_store,        \* the saved-run store: run id -> the files of the run
    ss_results,      \* st.session_state.results
    ss_run_id,       \* st.session_state.current_run_id, 0 for None
    ss_meta,         \* st.session_state.current_meta
    ss_autosave,     \* st.session_state.autosave
    ss_uuids,        \* run ids that Save as New has drawn so far
    ss_fetches,      \* presses of Fetch Top 20 so far
    ss_deleted,      \* runs deleted and not saved by a button since
    ss_raised        \* the last script run ended with an exception

amzVars == <<pc, amz_url, page, listing_fetch, redirect_failed, pos, seen_asins, items,
             listing_exc, idx, attempt, outcomes, detail, detail_exc, out_rows, results,
             last, back_to_back>>

mcVars == <<mc_cache, mc_now, mc_calls, mc_in, mc_out, mc_requests, mc_raised>>

NoCall ==
    [q |-> <<>>, limit |-> 0, debug |-> FALSE, searchOk |-> TRUE, failing |-> {}, hit |-> FALSE]

\* no call of the catalog matcher has been made
McIdle ==
    /\ mc_cache = {}
    /\ mc_now = 0
    /\ mc_calls = 0
    /\ mc_in = NoCall
    /\ mc_out = <<>>
    /\ mc_requests = 0
    /\ mc_raised = FALSE

ppVars == <<pp_cands, pp_calls, pp_first, pp_out>>

NoPrices == [cur |-> "", ret |-> ""]

\* _pick_prices has not been called
PpIdle ==
    /\ pp_cands = <<>>
    /\ pp_calls = 0
    /\ pp_first = NoPrices
    /\ pp_out = NoPrices

spVars == <<sp_soup, sp_read, sp_price, sp_image>>

\* no page has been handed to the extractors on their own
SpIdle ==
    /\ sp_soup = EmptySoup
    /\ sp_read = FALSE
    /\ sp_price = <<>>
    /\ sp_image = ""

ssVars == <<ss_store, ss_results, ss_run_id, ss_meta, ss_autosave, ss_uuids, ss_fetches,
            ss_deleted, ss_raised>>

\* st.session_state.results = None and st.session_state.current_meta = None
NoneDf == [set |-> FALSE, empty |-> TRUE, fetch |-> 0, edits |-> 0]
NoneMeta == [set |-> FALSE, name |-> ""]

\* SAVED_DIR without runs
EmptyStore == [id \in {} |-> [meta |-> NoneMeta, data |-> NoneDf]]

\* the session as the script finds it on its first run, the store empty
SsIdle ==
    /\ ss_store = EmptyStore
    /\ ss_results = NoneDf
    /\ ss_run_id = 0
    /\ ss_meta = NoneMeta
    /\ ss_autosave = TRUE
    /\ ss_uuids = 0
    /\ ss_fetches = 0
    /\ ss_deleted = {}
    /\ ss_raised = FALSE

NoDetail == [price |-> <<>>, image |-> ""]

InitAmz ==
    /\ pc = "idle"
    /\ amz_url \in {"", "https://www.amazon.com/gp/bestsellers/pc"}
    /\ page \in Pages
    /\ listing_fetch = "none"
    /\ redirect_failed = FALSE
    /\ pos = 0
    /\ seen_asins = {}
    /\ items = <<>>
    /\ listing_exc = FALSE
    /\ idx = 0
    /\ attempt = 0
    /\ outcomes = <<>>
    /\ detail = NoDetail
    /\ detail_exc = FALSE
    /\ out_rows = <<>>
    /\ results = [set |-> FALSE, rows |-> <<>>]
    /\ last = "none"
    /\ back_to_back = FALSE

(* ------------------------------------------------------------------ *)
(* parse_top20_from_category_page                                       *)
(* ------------------------------------------------------------------ *)
\* if not amz_url.strip(): st.error(...)
FetchBlankUrl ==
    /\ pc = "idle"
    /\ amz_url = ""
    /\ pc' = "rejected"
    /\ UNCHANGED <<amz_url, page, listing_fetch, redirect_failed, pos, seen_asins, items,
                   listing_exc, idx, attempt, outcomes, detail, detail_exc, out_rows,
                   results, last, back_to_back>>
    /\ UNCHANGED <<mcVars, ppVars, spVars, ssVars>>

\* soup, final_url = get_soup(url, session): not inside any try of the
\* function, so a failure leaves the function as an exception; the handler
\* catches it and goes on with items = []
FetchListing ==
    /\ pc = "idle"
    /\ amz_url # ""
    /\ \E ok \in BOOLEAN :
        /\ listing_fetch' = IF ok THEN "ok" ELSE "failed"
        /\ listing_exc' = ~ok
        /\ pc' = IF ok THEN "scan" ELSE "rows"
    /\ items' = <<>>
    /\ last' = "request"
    /\ back_to_back' = (back_to_back \/ last = "request")
    /\ UNCHANGED <<amz_url, page, redirect_failed, pos, seen_asins, idx, attempt, outcomes,
                   detail, detail_exc, out_rows, results>>
    /\ UNCHANGED <<mcVars, ppVars, spVars, ssVars>>

\* a scan that forgets the duplicate test
Skipped_nodedup(asin, seen) == asin = None

\* if not asin or asin in seen_asins: continue
Skipped(asin, seen) == asin = None \/ asin \in seen

\* the best-effort title: the text of the anchor, the alt text of its
\* image, its title attribute
BestTitle(a) ==
    LET t1 == Strip(a.text)
        t2 == IF t1 = "" /\ a.alt # "" THEN Strip(a.alt) ELSE t1
    IN IF t2 = "" /\ a.title # "" THEN Strip(a.title) ELSE t2

\* the redirect-resolution request inside try ... except Exception: pass.
\* It fails whenever the URL has no scheme, and may fail on any URL.
ResolveOutcomes(url) == IF HasScheme(url) THEN {TRUE, FALSE} ELSE {FALSE}
\* a resolution whose failure is not caught
ResolveRedirect_uncaught(url, ok) ==
    [raised |-> ~ok, url |-> IF ok THEN Redirect(url) ELSE url]

ResolveRedirect(url, ok) ==
    [raised |-> FALSE, url |-> IF ok THEN Redirect(url) ELSE url]

\* a scan that puts the newest item first
AddItem_front(its, it) == <<it>> \o its

\* items.append({"ASIN": asin, "Title": title or "", "URL": item_url})
AddItem(its, it) == Append(its, it)

\* a scan that stops one item late
ScanStops_late(its) == Len(its) > Top20

\* if len(items) >= 20: break
ScanStops(its) == Len(its) >= Top20

\* one round of  for a in anchors
ScanAnchor ==
    /\ pc = "scan"
    /\ pos < Len(page)
    /\ pos' = pos + 1
    /\ LET a == page[pos + 1]
           asin == extract_asin_from_url(a.href)
       IN IF Skipped(asin, seen_asins)
          THEN UNCHANGED <<pc, seen_asins, items, listing_exc, redirect_failed, last,
                           back_to_back>>
          ELSE \E ok \in ResolveOutcomes(ItemUrl(a.href)) :
                 LET r == ResolveRedirect(ItemUrl(a.href), ok)
                     its == AddItem(items, [ASIN |-> asin, Title |-> BestTitle(a),
                                            URL |-> r.url])
                 IN /\ redirect_failed' = (redirect_failed \/ ~ok)
                    /\ last' = "request"
                    /\ back_to_back' = (back_to_back \/ last = "request")
                    /\ IF r.raised
                       THEN /\ listing_exc' = TRUE
                            /\ items' = <<>>
                            /\ pc' = "rows"
                            /\ UNCHANGED seen_asins
                       ELSE /\ seen_asins' = seen_asins \cup {asin}
                            /\ items' = its
                            /\ pc' = IF ScanStops(its) THEN "rows" ELSE "scan"
                            /\ UNCHANGED listing_exc
    /\ UNCHANGED <<amz_url, page, listing_fetch, idx, attempt, outcomes, detail,
                   detail_exc, out_rows, results>>
    /\ UNCHANGED <<mcVars, ppVars, spVars, ssVars>>

\* the anchors are exhausted: return items
ScanEnd ==
    /\ pc = "scan"
    /\ pos = Len(page)
    /\ pc' = "rows"
    /\ UNCHANGED <<amz_url, page, listing_fetch, redirect_failed, pos, seen_asins, items,
                   listing_exc, idx, attempt, outcomes, detail, detail_exc, out_rows,
                   results, last, back_to_back>>
    /\ UNCHANGED <<mcVars, ppVars, spVars, ssVars>>

(* ------------------------------------------------------------------ *)
(* fetch_item_details_amzn and the item loop of the fetch handler       *)
(* ------------------------------------------------------------------ *)
\* for idx, it in enumerate(items): ... fetch_item_details_amzn(it["URL"], session)
StartDetail ==
    /\ pc = "rows"
    /\ idx < Len(items)
    /\ pc' = "detail"
    /\ attempt' = 0
    /\ outcomes' = <<>>
    /\ UNCHANGED <<amz_url, page, listing_fetch, redirect_failed, pos, seen_asins, items,
                   listing_exc, idx, detail, detail_exc, out_rows, results, last,
                   back_to_back>>
    /\ UNCHANGED <<mcVars, ppVars, spVars, ssVars>>

\* a handler that catches the failures of the request only
Caught_fetchonly(err) == err = "fetch"

\* except Exception: what the handler of the try catches
Caught(err) == err \in {"fetch", "parse"}

\* a loop that runs one round more
LoopEnds_late(att) == att > retries

\* for attempt in range(retries + 1): the loop is over after this round
LoopEnds(att) == att + 1 > retries

\* if attempt >= retries: return "", ""
LastAttempt(att) == att >= retries

\* what fetch_item_details_amzn returns when the page has been read
Found(soup) ==
    [price |-> extract_price_from_soup_amzn(soup), image |-> extract_image_from_soup_amzn(soup)]

\* one round of  for attempt in range(retries + 1):  get_soup, then either
\* return, or time.sleep and the next round; after the last round the
\* function returns "", ""
DetailAttempt ==
    /\ pc = "detail"
    /\ \E o \in DetailOutcomes(items[idx + 1].URL) :
        /\ outcomes' = Append(outcomes, o)
        /\ back_to_back' = (back_to_back \/ last = "request")
        /\ IF o.err = "none"
           THEN IF Found(o.soup).image # ""
                THEN /\ detail' = Found(o.soup)
                     /\ pc' = "row"
                     /\ last' = "request"
                     /\ UNCHANGED <<attempt, detail_exc>>
                ELSE /\ last' = "sleep"
                     /\ attempt' = attempt + 1
                     /\ detail' = NoDetail
                     /\ pc' = IF LoopEnds(attempt) THEN "row" ELSE "detail"
                     /\ UNCHANGED detail_exc
           ELSE IF ~Caught(o.err)
                THEN /\ detail_exc' = TRUE
                     /\ pc' = "crashed"
                     /\ last' = "request"
                     /\ UNCHANGED <<attempt, detail>>
                ELSE IF LastAttempt(attempt)
                     THEN /\ detail' = NoDetail
                          /\ pc' = "row"
                          /\ last' = "request"
                          /\ UNCHANGED <<attempt, detail_exc>>
                     ELSE /\ last' = "sleep"
                          /\ attempt' = attempt + 1
                          /\ detail' = NoDetail
                          /\ pc' = IF LoopEnds(attempt) THEN "row" ELSE "detail"
                          /\ UNCHANGED detail_exc
    /\ UNCHANGED <<amz_url, page, listing_fetch, redirect_failed, pos, seen_asins, items,
                   listing_exc, idx, out_rows, results>>
    /\ UNCHANGED <<mcVars, ppVars, spVars, ssVars>>

\* a record that carries the 0-based index as its rank
Row_zerobased(i, it, d, url) ==
    [ImageURL |-> d.image, Rank |-> i, Title |-> it.Title, ASIN |-> it.ASIN,
     AmazonURL |-> it.URL, AmazonPrice |-> d.price,
     MCSKU |-> "", MCPrice |-> "", MCRetail |-> "", MCTitle |-> "", MCImageURL |-> "",
     MCDescription |-> "", MCModel |-> "", MCBrand |-> "", MCURL |-> "",
     AttrMatch |-> "", Notes |-> "", MCCost |-> "", Avg1_4 |-> "",
     FetchedAt |-> "ts", CategoryDesc |-> "desc", AmazonBestURL |-> url]

\* the record the handler appends for the item at 0-based index i
Row(i, it, d, url) ==
    [ImageURL |-> d.image, Rank |-> i + 1, Title |-> it.Title, ASIN |-> it.ASIN,
     AmazonURL |-> it.URL, AmazonPrice |-> d.price,
     MCSKU |-> "", MCPrice |-> "", MCRetail |-> "", MCTitle |-> "", MCImageURL |-> "",
     MCDescription |-> "", MCModel |-> "", MCBrand |-> "", MCURL |-> "",
     AttrMatch |-> "", Notes |-> "", MCCost |-> "", Avg1_4 |-> "",
     FetchedAt |-> "ts", CategoryDesc |-> "desc", AmazonBestURL |-> url]

\* out_rows.append({...}); time.sleep(random.uniform(dmin, dmax))
AppendRow ==
    /\ pc = "row"
    /\ out_rows' = Append(out_rows, Row(idx, items[idx + 1], detail, amz_url))
    /\ idx' = idx + 1
    /\ last' = "sleep"
    /\ pc' = "rows"
    /\ UNCHANGED <<amz_url, page, listing_fetch, redirect_failed, pos, seen_asins, items,
                   listing_exc, attempt, outcomes, detail, detail_exc, results,
                   back_to_back>>
    /\ UNCHANGED <<mcVars, ppVars, spVars, ssVars>>

\* st.session_state.results = df, after the loop
StoreResults ==
    /\ pc = "rows"
    /\ idx = Len(items)
    /\ results' = [set |-> TRUE, rows |-> out_rows]
    /\ pc' = "done"
    /\ UNCHANGED <<amz_url, page, listing_fetch, redirect_failed, pos, seen_asins, items,
                   listing_exc, idx, attempt, outcomes, detail, detail_exc, out_rows,
                   last, back_to_back>>
    /\ UNCHANGED <<mcVars, ppVars, spVars, ssVars>>

NextAmz ==
    \/ FetchBlankUrl
    \/ FetchListing
    \/ ScanAnchor
    \/ ScanEnd
    \/ StartDetail
    \/ DetailAttempt
    \/ AppendRow
    \/ StoreResults

vars == <<amzVars, mcVars, ppVars, spVars, ssVars>>

Init == InitAmz /\ McIdle /\ PpIdle /\ SpIdle /\ SsIdle

Spec == Init /\ [][NextAmz]_vars

\* the handler runs on: every request ends (time-outs) and every sleep ends
FairSpec == Spec /\ WF_vars(NextAmz)

(* ------------------------------------------------------------------ *)
(* Properties of the listing scan                                       *)
(* ------------------------------------------------------------------ *)
\* the identifiers the first n anchors of the page carry
IdSet(n) == { extract_asin_from_url(page[j].href) : j \in 1..n } \ {None}

\* the distinct identifiers of a sequence of anchors in the order of their
\* first occurrence
RECURSIVE FirstOccurrences(_, _)
FirstOccurrences(as, seen) ==
    IF as = <<>> THEN <<>>
    ELSE LET id == extract_asin_from_url(Head(as).href)
         IN IF id = None \/ id \in seen THEN FirstOccurrences(Tail(as), seen)
            ELSE <<id>> \o FirstOccurrences(Tail(as), seen \cup {id})

FirstUpTo(q, n) == IF Len(q) <= n THEN q ELSE SubSeq(q, 1, n)

ItemIds == [i \in 1..Len(items) |-> items[i].ASIN]

\* C1: the scan never holds more than 20 candidates, it is over once it
\* holds 20, and the 20th was added by the last anchor it examined
C1_Cap ==
    /\ Len(items) <= Top20
    /\ Len(out_rows) <= Top20
    /\ Len(results.rows) <= Top20
    /\ (pc = "scan" => Len(items) < Top20)
    /\ (Len(items) = Top20 =>
            /\ Cardinality(IdSet(pos)) = Top20
            /\ Cardinality(IdSet(pos - 1)) = Top20 - 1)

\* a finished scan of a page with more than 20 products, cut at 20
C1_Witness ==
    /\ pc = "done"
    /\ Len(results.rows) = Top20
    /\ pos < Len(page)
    /\ Cardinality(IdSet(Len(page))) > Top20

\* C2: no two candidates of the scan, and no two records, share an ASIN
C2_Unique ==
    /\ \A i, j \in 1..Len(items) : i # j => items[i].ASIN # items[j].ASIN
    /\ \A i, j \in 1..Len(out_rows) : i # j => out_rows[i].ASIN # out_rows[j].ASIN

\* a finished scan that met one product under two different hrefs
C2_Witness ==
    /\ pc = "done"
    /\ Len(items) >= 2
    /\ \E i, j \in 1..pos :
          /\ i < j
          /\ page[i].href # page[j].href
          /\ extract_asin_from_url(page[i].href) # None
          /\ extract_asin_from_url(page[i].href) = extract_asin_from_url(page[j].href)

\* C3: the candidates are the first (up to 20) distinct identifiers of the
\* anchors examined, in the order of their first occurrence; once the scan
\* has returned they are those of the whole page
C3_Order ==
    /\ (listing_fetch = "ok" =>
            ItemIds = FirstUpTo(FirstOccurrences(SubSeq(page, 1, pos), {}), Top20))
    /\ (listing_fetch = "ok" /\ pc # "scan" =>
            ItemIds = FirstUpTo(FirstOccurrences(page, {}), Top20))

\* a returned scan that kept several candidates and passed over a repeat
C3_Witness ==
    /\ pc = "rows"
    /\ idx = 0
    /\ Len(items) >= 3
    /\ \E i, j \in 1..pos :
          /\ i < j
          /\ j < pos
          /\ extract_asin_from_url(page[i].href) # None
          /\ extract_asin_from_url(page[i].href) = extract_asin_from_url(page[j].href)

\* C4: the scan raises exactly when the GET of the listing page failed, a
\* failed redirect resolution or a skipped link never makes it raise, and
\* after a raised failure the handler stores zero records
C4_RaisesOnlyOnListing ==
    /\ (listing_exc <=> listing_fetch = "failed")
    /\ (listing_exc => items = <<>> /\ out_rows = <<>>)
    /\ (listing_exc /\ pc = "done" => results = [set |-> TRUE, rows |-> <<>>])

\* a finished run in which a redirect resolution failed and links were skipped
C4_Witness ==
    /\ pc = "done"
    /\ redirect_failed
    /\ ~listing_exc
    /\ Len(items) < pos
    /\ Len(results.rows) = Len(items)
    /\ \E i \in 1..Len(items) : items[i].URL # Redirect(items[i].URL)

(* ------------------------------------------------------------------ *)
(* Properties of the detail fetch                                       *)
(* ------------------------------------------------------------------ *)
AllFailed(os) == os # <<>> /\ \A k \in 1..Len(os) : os[k].err # "none"

\* C5: the detail fetch never raises to the handler, and when every
\* attempt ended in an exception it returns both fields empty
C5_NeverRaises ==
    /\ ~detail_exc
    /\ pc # "crashed"
    /\ (pc = "row" /\ AllFailed(outcomes) => detail = NoDetail)

\* a detail fetch returned after three failed attempts, one of them a
\* failure while reading the page
C5_Witness ==
    /\ pc = "row"
    /\ Len(outcomes) = retries + 1
    /\ AllFailed(outcomes)
    /\ \E k \in 1..Len(outcomes) : outcomes[k].err = "parse"

\* C6: when the last attempt read the page, the price returned is the
\* price found on that page and the image returned the image found on it
C6_FieldIndependence ==
    pc = "row" /\ outcomes # <<>> /\ outcomes[Len(outcomes)].err = "none"
        => detail = Found(outcomes[Len(outcomes)].soup)

\* C7: a detail fetch sends at most 3 requests, every request after the
\* first follows a sleep, and the fetch returns
C7_BoundedAttempts ==
    /\ [](Len(outcomes) <= 3)
    /\ [](pc = "detail" /\ outcomes # <<>> => last = "sleep")
    /\ ((pc = "detail") ~> (pc = "row"))

\* a detail fetch about to send its third request
C7_Witness ==
    /\ pc = "detail"
    /\ Len(outcomes) = 2
    /\ attempt = retries
    /\ last = "sleep"

(* ------------------------------------------------------------------ *)
(* Properties of the record assembly                                    *)
(* ------------------------------------------------------------------ *)
ManualFields ==
    {"MCSKU", "MCPrice", "MCRetail", "MCTitle", "MCImageURL", "MCDescription",
     "MCModel", "MCBrand", "MCURL", "AttrMatch", "Notes", "MCCost", "Avg1_4"}

\* C8: the handler holds one record per candidate handled so far, in the
\* order of the listing and ranked 1, 2, ...; a candidate whose attempts
\* all failed has a record with empty price and image; the manual fields
\* are empty; the finished run stores one record per candidate
C8_Assembly ==
    /\ Len(out_rows) = idx
    /\ idx <= Len(items)
    /\ \A i \in 1..Len(out_rows) :
          /\ out_rows[i].Rank = i
          /\ out_rows[i].ASIN = items[i].ASIN
          /\ out_rows[i].AmazonURL = items[i].URL
          /\ out_rows[i].Title = items[i].Title
          /\ \A f \in ManualFields : out_rows[i][f] = ""
    /\ (pc = "rows" /\ idx > 0 /\ AllFailed(outcomes) =>
            out_rows[idx].AmazonPrice = <<>> /\ out_rows[idx].ImageURL = "")
    /\ (pc = "done" =>
            /\ results.set
            /\ results.rows = out_rows
            /\ Len(results.rows) = Len(items)
            /\ Len(results.rows) <= Top20)

\* a finished run of 20 records, one of them for a product whose detail
\* page always fails, others with price and image
C8_Witness ==
    /\ pc = "done"
    /\ Len(results.rows) = Top20
    /\ \E i \in 1..Len(results.rows) :
          /\ results.rows[i].ASIN.id \in DeadIds
          /\ results.rows[i].AmazonPrice = <<>>
          /\ results.rows[i].ImageURL = ""
    /\ \E i \in 1..Len(results.rows) :
          /\ results.rows[i].AmazonPrice # <<>>
          /\ results.rows[i].ImageURL # ""

(* ------------------------------------------------------------------ *)
(* Catalog matcher: links of the search-result page                     *)
(* ------------------------------------------------------------------ *)
\* A link is [scheme, host, path, slash, query]: scheme "http" (the href
\* starts with http), "rel" (it starts with "/") or "bare"; path and query
\* are sequences of segments, a segment the sequence of the words that
\* hyphens join; slash tells whether the path ends in "/".
McHost == <<"www.microcenter.com">>

\* str.lower() on the words of the model
Lower(w) ==
    CASE w = "Battery" -> "battery"
      [] w = "PRODUCT" -> "product"
      [] w = "Repair" -> "repair"
      [] w = "Raspberry" -> "raspberry"
      [] w = "Pi" -> "pi"
      [] w = "SKU" -> "sku"
      [] OTHER -> w
LowerSeg(seg) == [k \in 1..Len(seg) |-> Lower(seg[k])]

\* word w starts with the text p
HasPrefix(w, p) ==
    \/ w = p
    \/ <<w, p>> \in {<<"services", "service">>, <<"servicecenter", "service">>,
                     <<"repairs", "repair">>, <<"batterypack", "battery">>}

\* href if href.startswith("http") else "https://www.microcenter.com" + href
HrefAbs(h) ==
    IF h.scheme = "http" THEN h
    ELSE IF h.scheme = "rel" THEN [h EXCEPT !.scheme = "http", !.host = McHost]
    ELSE IF h.path = <<>> THEN [h EXCEPT !.scheme = "http", !.host = McHost]
    ELSE [h EXCEPT !.scheme = "http", !.host = McHost \o <<h.path[1]>>,
                   !.path = Tail(h.path)]

\* "/product/" occurs in a sequence of segments that text follows or not
HasProductSeg(segs, more) ==
    \E j \in 1..Len(segs) :
        LowerSeg(segs[j]) = <<"product">> /\ (j < Len(segs) \/ more)

\* "/product/" in href_abs.lower()
HasProduct(u) == HasProductSeg(u.path, u.slash) \/ HasProductSeg(u.query, FALSE)

ServiceWords ==
    {"service", "services", "repair", "repairs", "battery", "batteries", "appointment",
     "warranty", "diagnostic", "protection"}

\* _SERVICE_PAT.search(path): "/" and a keyword, then a word boundary
SERVICE_PAT(path) ==
    \E j \in 1..Len(path) :
        LET seg == LowerSeg(path[j])
        IN /\ seg # <<>>
           /\ \/ seg[1] \in ServiceWords
              \/ Len(seg) >= 2 /\ <<seg[1], seg[2]>> \in {<<"trade", "in">>, <<"tech", "support">>}

\* "/in-store-service" in path or "/data-recovery" in path or "/apple-" in path
ServiceSubstring(path) ==
    \E j \in 1..Len(path) :
        LET seg == LowerSeg(path[j])
        IN \/ Len(seg) >= 3 /\ seg[1] = "in" /\ seg[2] = "store" /\ HasPrefix(seg[3], "service")
           \/ Len(seg) >= 2 /\ seg[1] = "data" /\ HasPrefix(seg[2], "recovery")
           \/ Len(seg) >= 2 /\ seg[1] = "apple"

\* a filter that keeps only the substring tests
is_service_like_url_nopattern(u) == ServiceSubstring(u.path)

\* _is_service_like_url: urlparse(url).path lowered, then the two tests
is_service_like_url(u) == SERVICE_PAT(u.path) \/ ServiceSubstring(u.path)

\* for a in soup.find_all("a", href=True): the links kept as candidates,
\* in document order, each absolute URL once
RECURSIVE CandLinks(_, _)
CandLinks(hrefs, seen) ==
    IF hrefs = <<>> THEN <<>>
    ELSE LET u == HrefAbs(Head(hrefs))
         IN IF ~HasProduct(u) \/ is_service_like_url(u) \/ u \in seen
            THEN CandLinks(Tail(hrefs), seen)
            ELSE <<u>> \o CandLinks(Tail(hrefs), seen \cup {u})

(* ------------------------------------------------------------------ *)
(* Catalog matcher: prices of a product page                            *)
(* ------------------------------------------------------------------ *)
\* A price is the text _clean_money gives and its value in cents; the
\* empty text has no value.
NoMoney == [s |-> "", n |-> -100]

Range(q) == { q[k] : k \in 1..Len(q) }

\* PRICE_CTX_CURRENT.search(ctx) and PRICE_CTX_RETAIL.search(ctx)
CtxCurrent(ctx) == \E w \in Range(ctx) : Lower(w) \in {"your", "current", "now", "sale", "today"}
CtxRetail(ctx) == \E w \in Range(ctx) : Lower(w) \in {"was", "reg", "regular", "compare", "strike", "list"}

\* score_current and score_retail
score_current(ctx) == IF CtxCurrent(ctx) THEN 2 ELSE 0
score_retail(ctx) == IF CtxRetail(ctx) THEN 2 ELSE 0

\* to_float: the value of the text, -1.0 when it does not parse
to_float(val) == IF val.s = "" THEN -100 ELSE val.n

\* list.sort(key=lambda x: (x[1], x[2]), reverse=True), then element 0:
\* the candidates of one bucket carry the same score, so the first element
\* is the earliest candidate of the greatest value
FirstOfSorted(bucket) ==
    LET best == { j \in 1..Len(bucket) :
                    \A k \in 1..Len(bucket) : to_float(bucket[k].val) <= to_float(bucket[j].val) }
    IN bucket[Min(best)].val

\* a selection that returns the two buckets' picks as they are
pick_prices_noswap(cands) ==
    IF cands = <<>> THEN [cur |-> NoMoney, ret |-> NoMoney]
    ELSE LET IsCur(c) == score_current(c.ctx) > score_retail(c.ctx)
             IsRet(c) == score_retail(c.ctx) > score_current(c.ctx)
             IsUnk(c) == score_current(c.ctx) = score_retail(c.ctx)
             cur0 == SelectSeq(cands, IsCur)
             retail_cands == SelectSeq(cands, IsRet)
             unknown_cands == SelectSeq(cands, IsUnk)
             current_cands == IF cur0 = <<>> /\ unknown_cands # <<>> THEN unknown_cands ELSE cur0
         IN [cur |-> IF current_cands # <<>> THEN FirstOfSorted(current_cands) ELSE NoMoney,
             ret |-> IF retail_cands # <<>> THEN FirstOfSorted(retail_cands) ELSE NoMoney]

pick_prices(cands) ==
    IF cands = <<>> THEN [cur |-> NoMoney, ret |-> NoMoney]
    ELSE LET IsCur(c) == score_current(c.ctx) > score_retail(c.ctx)
             IsRet(c) == score_retail(c.ctx) > score_current(c.ctx)
             IsUnk(c) == score_current(c.ctx) = score_retail(c.ctx)
             cur0 == SelectSeq(cands, IsCur)
             retail_cands == SelectSeq(cands, IsRet)
             unknown_cands == SelectSeq(cands, IsUnk)
             current_cands == IF cur0 = <<>> /\ unknown_cands # <<>> THEN unknown_cands ELSE cur0
             cur == IF current_cands # <<>> THEN FirstOfSorted(current_cands) ELSE NoMoney
             ret == IF retail_cands # <<>> THEN FirstOfSorted(retail_cands) ELSE NoMoney
         IN IF cur.s # "" /\ ret.s # "" /\ cur.n > ret.n
            THEN [cur |-> ret, ret |-> cur]
            ELSE [cur |-> cur, ret |-> ret]

(* ------------------------------------------------------------------ *)
(* Catalog matcher: a product page                                      *)
(* ------------------------------------------------------------------ *)
\* A product page is [skuMeta, ld, titleTag, textSku, h1, og, cands,
\* brandTxt, modelTxt]: the itemprop=sku value, the Product objects of the
\* JSON-LD scripts in order, the words of <title>, the number after "SKU"
\* in the text, the words of the first h1, the og:image, the price
\* candidates, and the texts after "Brand" and "Model".
EmptyPage ==
    [skuMeta |-> "", ld |-> <<>>, titleTag |-> <<>>, textSku |-> "", h1 |-> <<>>,
     og |-> "", cands |-> <<>>, brandTxt |-> <<>>, modelTxt |-> ""]

\* x = obj.get(f) or x, over the Product objects in order
RECURSIVE LastSetOr(_, _, _, _)
LastSetOr(ld, f, empty, acc) ==
    IF ld = <<>> THEN acc
    ELSE LastSetOr(Tail(ld), f, empty, IF Head(ld)[f] # empty THEN Head(ld)[f] ELSE acc)

\* "service" in title_txt or "repair" in title_txt or "battery" in title_txt
ServiceTitle(t) ==
    \E w \in Range(t) :
        \/ HasPrefix(Lower(w), "service")
        \/ HasPrefix(Lower(w), "repair")
        \/ HasPrefix(Lower(w), "battery")

\* _parse_mc_product_page once the page has arrived: raised is the
\* ValueError("Service page, not product")
parse_mc_product_page(url, pg) ==
    LET is_product_schema == pg.ld # <<>>
        json_ld_sku == LastSetOr(pg.ld, "sku", "", "")
        name == LastSetOr(pg.ld, "name", <<>>, <<>>)
        desc == LastSetOr(pg.ld, "desc", <<>>, <<>>)
        brand == LastSetOr(pg.ld, "brand", <<>>, <<>>)
        image == LastSetOr(pg.ld, "image", "", "")
        detected_sku == IF pg.skuMeta # "" THEN pg.skuMeta ELSE pg.textSku
        prices == pick_prices(pg.cands)
    IN [raised |-> ~(is_product_schema \/ pg.skuMeta # "" \/ json_ld_sku # "")
                      /\ ServiceTitle(pg.titleTag),
        pdict |-> [detected_sku |-> IF json_ld_sku # "" THEN json_ld_sku ELSE detected_sku,
                   MCTitle |-> IF name # <<>> THEN name ELSE pg.h1,
                   MCPrice |-> prices.cur.s,
                   MCRetail |-> prices.ret.s,
                   MCImageURL |-> IF image # "" THEN image ELSE pg.og,
                   MCDescription |-> desc,
                   MCModel |-> pg.modelTxt,
                   MCBrand |-> IF brand # <<>> THEN brand ELSE pg.brandTxt,
                   MCURL |-> url]]

(* ------------------------------------------------------------------ *)
(* Catalog matcher: scores                                              *)
(* ------------------------------------------------------------------ *)
\* _normalize_tokens: lower case, punctuation to white space, split
normalize_tokens(ws) == { Lower(w) : w \in Range(ws) } \ {"", " "}

\* text a occurs inside text b
IsSubstr(a, b) ==
    \/ a = b
    \/ <<a, b>> \in {<<"pi", "pi5">>, <<"5", "pi5">>, <<"5", "123456">>, <<"4b", "rpi4b">>}

\* _score_candidate: a score is the fraction n/d
score_candidate(query, pdict) ==
    LET q_tokens == normalize_tokens(query)
        c_tokens == normalize_tokens(pdict.MCTitle \o pdict.MCBrand \o <<pdict.MCModel>>
                                     \o pdict.MCDescription)
        inter == Cardinality(q_tokens \cap c_tokens)
        union == Cardinality(q_tokens \cup c_tokens)
        model == Lower(pdict.MCModel)
        bonus == IF model # "" /\ \E t \in q_tokens : IsSubstr(model, t) THEN 15 ELSE 0
        n == 100 * inter + bonus * union
    IN IF q_tokens = {} \/ c_tokens = {} THEN [n |-> 0, d |-> 100]
       ELSE [n |-> IF n > 100 * union THEN 100 * union ELSE n, d |-> 100 * union]

\* p.get("_score", 0.12) >= 0.12
MinScore == 12
ScoreKept(sc) == 100 * sc.n >= MinScore * sc.d

\* score a is greater than score b
ScoreGreater(a, b) == a.n * b.d > b.n * a.d

\* others.sort(key=lambda x: x.get("_score", 0.0), reverse=True): stable,
\* equal scores keep their order
RECURSIVE InsertByScore(_, _)
InsertByScore(sorted, p) ==
    IF sorted = <<>> THEN <<p>>
    ELSE IF ScoreGreater(p.score, Head(sorted).score) THEN <<p>> \o sorted
    ELSE <<Head(sorted)>> \o InsertByScore(Tail(sorted), p)

RECURSIVE SortByScore(_)
SortByScore(ps) ==
    IF ps = <<>> THEN <<>>
    ELSE InsertByScore(SortByScore(SubSeq(ps, 1, Len(ps) - 1)), ps[Len(ps)])

(* ------------------------------------------------------------------ *)
(* Catalog matcher: the catalog site                                    *)
(* ------------------------------------------------------------------ *)
Link(scheme, path, slash, query) ==
    [scheme |-> scheme, host |-> IF scheme = "http" THEN McHost ELSE <<>>,
     path |-> path, slash |-> slash, query |-> query]

\* the links of the search-result page for a query, in document order
SearchResults(qs) ==
    IF normalize_tokens(qs) = {"raspberry", "pi", "5"}
    THEN << Link("rel", << <<"search">>, <<"next">> >>, FALSE, <<>>),
            Link("rel", << <<"product">>, <<"670002">>, <<"pi", "case">> >>, FALSE, <<>>),
            Link("rel", << <<"product">>, <<"battery", "replacement", "9000">> >>, FALSE, <<>>),
            Link("rel", << <<"product">>, <<"670001">>, <<"raspberry", "pi", "5">> >>, FALSE, <<>>),
            Link("http", << <<"product">>, <<"670001">>, <<"raspberry", "pi", "5">> >>, FALSE, <<>>),
            Link("rel", << <<"product">>, <<"670004">>, <<"help", "desk">> >>, FALSE, <<>>),
            Link("rel", << <<"product">>, <<"670003">>, <<"usb", "cable">> >>, TRUE,
                 << <<"battery">> >>),
            Link("rel", << <<"PRODUCT">>, <<"Repair">>, <<"pi">> >>, FALSE, <<>>),
            Link("rel", << <<"product">>, <<"670009">>, <<"pi", "guide">> >>, FALSE, <<>>) >>
    ELSE IF normalize_tokens(qs) = {"123456"}
    THEN << Link("rel", << <<"product">>, <<"670006">>, <<"batterypack", "holder">> >>, FALSE, <<>>),
            Link("bare", << <<"product">>, <<"123456">>, <<"kit">> >>, FALSE, <<>>),
            Link("rel", << <<"product">>, <<"123456">>, <<"kit">> >>, FALSE, <<>>),
            Link("rel", << <<"site">>, <<"product">>, <<"in", "store", "services">> >>, FALSE, <<>>),
            Link("rel", << <<"product">>, <<"670005">>, <<"blank">> >>, FALSE, <<>>),
            Link("rel", << <<"product">>, <<"apple", "watch">> >>, FALSE, <<>>),
            Link("rel", << <<"product">>, <<"670007">>, <<"trade", "in">> >>, FALSE, <<>>),
            Link("rel", << <<"product">> >>, FALSE, <<>>),
            Link("rel", << <<"product">>, <<"670008">>, <<"spare", "part">> >>, FALSE, <<>>) >>
    ELSE IF normalize_tokens(qs) = {"battery"}
    THEN << Link("rel", << <<"product">>, <<"warranty">> >>, FALSE, <<>>),
            Link("rel", << <<"product">>, <<"670006">>, <<"batterypack", "holder">> >>, FALSE, <<>>) >>
    ELSE <<>>

\* the product page behind a link, by the product number in its path
McPage(u) ==
    LET num == IF Len(u.path) >= 2 THEN u.path[2][1] ELSE ""
    IN CASE num = "670001" ->
              [EmptyPage EXCEPT
                 !.ld = << [sku |-> "670001", name |-> <<"Raspberry", "Pi", "5", "8gb">>,
                            desc |-> <<>>, brand |-> <<>>, image |-> "https://mc/670001.jpg"] >>,
                 !.cands = << [val |-> [s |-> "$80.00", n |-> 8000], ctx |-> <<"was", "$80.00">>],
                              [val |-> [s |-> "$74.99", n |-> 7499], ctx |-> <<"now", "$74.99">>] >>]
         [] num = "670002" ->
              [EmptyPage EXCEPT !.h1 = <<"Pi", "Case">>, !.textSku = "670002",
                                !.modelTxt = "pi",
                                !.cands = << [val |-> [s |-> "$9.99", n |-> 999],
                                              ctx |-> <<"$9.99">>] >>]
         [] num = "670003" ->
              [EmptyPage EXCEPT !.h1 = <<"usb", "cable">>, !.skuMeta = "670003"]
         [] num = "670004" ->
              [EmptyPage EXCEPT !.h1 = <<"Pi", "help">>, !.titleTag = <<"Repair", "desk">>]
         [] num = "670006" ->
              [EmptyPage EXCEPT !.h1 = <<"123456">>, !.titleTag = <<"batterypack">>,
                                !.skuMeta = "670006", !.og = "https://mc/670006.jpg"]
         [] num = "123456" ->
              [EmptyPage EXCEPT
                 !.ld = << [sku |-> "", name |-> <<"Kit">>, desc |-> <<>>, brand |-> <<>>,
                            image |-> ""],
                           [sku |-> "123456", name |-> <<"Kit", "123456", "for", "Pi", "5">>,
                            desc |-> <<>>, brand |-> <<"Acme">>, image |-> ""] >>]
         [] num = "670008" ->
              [EmptyPage EXCEPT !.h1 = <<"Spare", "part">>, !.textSku = "123456"]
         [] num = "670009" ->
              [EmptyPage EXCEPT !.h1 = <<"Raspberry", "Pi", "5", "guide">>,
                                !.titleTag = <<"Guide">>]
         [] num = "battery" ->
              [EmptyPage EXCEPT !.h1 = <<"Raspberry", "Pi", "5", "Battery", "replacement">>,
                                !.skuMeta = "9000",
                                !.cands = << [val |-> [s |-> "$49.99", n |-> 4999],
                                              ctx |-> <<"$49.99">>] >>]
         [] OTHER -> EmptyPage

(* ------------------------------------------------------------------ *)
(* fetch_microcenter_candidates                                         *)
(* ------------------------------------------------------------------ *)
ttl == 1800             \* @st.cache_data(ttl=1800, show_spinner=False)
TickStep == ttl \div 2

\* re.fullmatch(r"\d{4,}", q)
NumericQuery(qs) == Len(qs) = 1 /\ qs[1] \in {"123456", "670001"}

\* a candidate loop whose failures leave the loop
candidate_uncaught(link, fails, qs) ==
    IF fails THEN [raised |-> TRUE, kept |-> <<>>]
    ELSE LET after(r) ==
                 IF r.raised THEN [raised |-> TRUE, kept |-> <<>>]
                 ELSE IF r.pdict.detected_sku = "" /\ r.pdict.MCTitle = <<>>
                      THEN [raised |-> FALSE, kept |-> <<>>]
                 ELSE [raised |-> FALSE,
                       kept |-> << r.pdict @@ [score |-> score_candidate(qs, r.pdict)] >>]
         IN after(parse_mc_product_page(link, McPage(link)))

\* one round of  for link in cand_links:  inside  try ... except Exception:
\* continue.  fails tells whether the request of the page fails.
candidate(link, fails, qs) ==
    IF fails THEN [raised |-> FALSE, kept |-> <<>>]
    ELSE LET after(r) ==
                 IF r.raised THEN [raised |-> FALSE, kept |-> <<>>]
                 ELSE IF r.pdict.detected_sku = "" /\ r.pdict.MCTitle = <<>>
                      THEN [raised |-> FALSE, kept |-> <<>>]
                 ELSE [raised |-> FALSE,
                       kept |-> << r.pdict @@ [score |-> score_candidate(qs, r.pdict)] >>]
         IN after(parse_mc_product_page(link, McPage(link)))

\* the candidate loop over cand_links from position k on; failing is the
\* set of positions whose request fails
RECURSIVE ParseAll(_, _, _, _)
ParseAll(links, k, failing, qs) ==
    IF k > Len(links) THEN [raised |-> FALSE, parsed |-> <<>>]
    ELSE LET c == candidate(links[k], k \in failing, qs)
             rest == ParseAll(links, k + 1, failing, qs)
         IN IF c.raised THEN [raised |-> TRUE, parsed |-> <<>>]
            ELSE [raised |-> rest.raised, parsed |-> c.kept \o rest.parsed]

\* a ranking that orders every candidate by score alone
Rank_scoreonly(parsed, qs, limit) ==
    LET Kept(p) == ScoreKept(p.score)
    IN FirstUpTo(SortByScore(SelectSeq(parsed, Kept)), limit)

\* a ranking that leaves the other candidates in the order they were parsed
Rank_unsorted(parsed, qs, limit) ==
    LET IsExact(p) == NumericQuery(qs) /\ p.detected_sku = qs[1]
        IsOther(p) == ~IsExact(p)
        Kept(p) == ScoreKept(p.score)
    IN FirstUpTo(SelectSeq(parsed, IsExact) \o SelectSeq(SelectSeq(parsed, IsOther), Kept),
                 limit)

\* lines 470-480: exact matches first, then the others that reach the
\* minimum score by falling score, cut at limit
Rank(parsed, qs, limit) ==
    LET IsExact(p) == NumericQuery(qs) /\ p.detected_sku = qs[1]
        IsOther(p) == ~IsExact(p)
        Kept(p) == ScoreKept(p.score)
        exact == SelectSeq(parsed, IsExact)
        others == SortByScore(SelectSeq(SelectSeq(parsed, IsOther), Kept))
    IN FirstUpTo(exact \o others, limit)

\* the body of the function from cand_links on: the value returned
MatchFrom(qs, limit, links, failing) ==
    LET all == ParseAll(links, 1, failing, qs)
    IN IF all.raised THEN <<>> ELSE Rank(all.parsed, qs, limit)

\* the body of fetch_microcenter_candidates: the value returned, whether
\* an exception leaves the function, and the requests sent
fetch_body(q, limit, searchOk, failing) ==
    LET qs == NoSpaces(StripText(q))
    IN IF qs = <<>> THEN [out |-> <<>>, raised |-> FALSE, requests |-> 0]
       ELSE IF ~searchOk THEN [out |-> <<>>, raised |-> FALSE, requests |-> 1]
       ELSE LET links == CandLinks(SearchResults(qs), {})
            IN [out |-> MatchFrom(qs, limit, links, failing), raised |-> FALSE,
                requests |-> 1 + Len(links)]

\* the product pages whose request fails at times, and the positions of a
\* list of links that lead to one of them
FlakyPages == {"670001", "670002", "123456"}
FlakyPositions(links) ==
    { k \in 1..Len(links) : Len(links[k].path) >= 2 /\ links[k].path[2][1] \in FlakyPages }

\* the queries typed into the search box, as texts with their white space
Queries ==
    { <<" ">>, <<"Raspberry", " ", "Pi", " ", "5">>, <<"123456">>, <<"battery">> }

\* the (limit, debug) pairs of the calls
CallArgs == { <<8, FALSE>>, <<8, TRUE>>, <<1, FALSE>> }

\* a cache whose entries never expire
Live_forever(key) == { e \in mc_cache : e.key = key }

\* the entries of the cache that answer a key now
Live(key) == { e \in mc_cache : e.key = key /\ mc_now - e.at < ttl }

\* no press of "Fetch Top 20" is under way
AmzIdle ==
    /\ pc = "idle"
    /\ amz_url = ""
    /\ page = <<>>
    /\ listing_fetch = "none"
    /\ redirect_failed = FALSE
    /\ pos = 0
    /\ seen_asins = {}
    /\ items = <<>>
    /\ listing_exc = FALSE
    /\ idx = 0
    /\ attempt = 0
    /\ outcomes = <<>>
    /\ detail = NoDetail
    /\ detail_exc = FALSE
    /\ out_rows = <<>>
    /\ results = [set |-> FALSE, rows |-> <<>>]
    /\ last = "none"
    /\ back_to_back = FALSE

\* a call of fetch_microcenter_candidates(q, limit, debug) through
\* st.cache_data: a live entry of the key answers it, otherwise the body
\* runs and its value is stored
CallFetchMicrocenter ==
    /\ mc_calls < MaxCalls
    /\ \E q \in Queries, a \in CallArgs, searchOk \in BOOLEAN :
         LET key == [q |-> q, limit |-> a[1], debug |-> a[2]]
             qs == NoSpaces(StripText(q))
             links == IF qs = <<>> \/ ~searchOk \/ Live(key) # {} THEN <<>>
                      ELSE CandLinks(SearchResults(qs), {})
         IN \E failing \in { f \in SUBSET FlakyPositions(links) : Cardinality(f) <= MaxFailing } :
              /\ (Live(key) # {} \/ qs = <<>>) => searchOk
              /\ mc_calls' = mc_calls + 1
              /\ IF Live(key) # {}
                 THEN /\ mc_out' = (CHOOSE e \in Live(key) : TRUE).out
                      /\ mc_requests' = 0
                      /\ mc_raised' = FALSE
                      /\ mc_in' = [q |-> q, limit |-> a[1], debug |-> a[2], searchOk |-> TRUE,
                                   failing |-> {}, hit |-> TRUE]
                      /\ UNCHANGED mc_cache
                 ELSE \E r \in {fetch_body(q, a[1], searchOk, failing)} :
                         /\ mc_out' = r.out
                         /\ mc_requests' = r.requests
                         /\ mc_raised' = r.raised
                         /\ mc_in' = [q |-> q, limit |-> a[1], debug |-> a[2],
                                      searchOk |-> searchOk, failing |-> failing, hit |-> FALSE]
                         /\ mc_cache' = { e \in mc_cache : e.key # key }
                                          \cup {[key |-> key, at |-> mc_now, out |-> r.out]}
    /\ UNCHANGED <<mc_now>>
    /\ UNCHANGED <<amzVars, ppVars, spVars, ssVars>>

\* time passes
Tick ==
    /\ mc_now < MaxClock
    /\ mc_now' = mc_now + TickStep
    /\ UNCHANGED <<mc_cache, mc_calls, mc_in, mc_out, mc_requests, mc_raised>>
    /\ UNCHANGED <<amzVars, ppVars, spVars, ssVars>>

NextMC ==
    \/ CallFetchMicrocenter
    \/ Tick

InitMC == AmzIdle /\ McIdle /\ PpIdle /\ SpIdle /\ SsIdle

SpecMC == InitMC /\ [][NextMC]_vars

(* ------------------------------------------------------------------ *)
(* The two extractors of a detail page on their own                     *)
(* ------------------------------------------------------------------ *)
DynImage == "{\"https://img/dyn\":[1,1]}"

\* the price containers, a-offscreen spans, price metas and image elements
\* a detail page can hold
ContainerChoices ==
    { <<>>,
      << [off |-> <<"$", "19.99">>, txt |-> <<"$", "19.99">>] >>,
      << [off |-> <<"19.99">>, txt |-> <<"19.99">>] >>,
      << [off |-> <<>>, txt |-> <<"was">>], [off |-> <<" ">>, txt |-> <<"Price:", "$", " ", "5.00">>] >> }
OffscreenChoices == { <<>>, << <<"Save">>, <<" ", "$", " ", "24.50">> >> }
MetaChoices == { <<>>, <<"9.99">>, <<"$", "9.99">> }
OgPriceChoices == { <<>>, <<"7.00">> }
LandingChoices ==
    { <<>>,
      << [hires |-> "https://img/hires", src |-> "https://img/src", dyn |-> DynImage] >>,
      << [hires |-> " ", src |-> "https://img/src", dyn |-> DynImage] >>,
      << [hires |-> "", src |-> "", dyn |-> DynImage] >>,
      << [hires |-> "", src |-> "", dyn |-> "{}"] >> }
WrapperChoices ==
    { <<>>,
      << [hires |-> "https://img/w-hires", src |-> "https://img/w-src", dyn |-> DynImage] >>,
      << [hires |-> "", src |-> "https://img/w-src", dyn |-> DynImage] >>,
      << [hires |-> "", src |-> "", dyn |-> DynImage] >> }

SoupChoices ==
    { [containers |-> c, offscreens |-> o, metaPrice |-> m, ogPrice |-> g,
       ogImage |-> oi, linkImage |-> li, landing |-> l, wrapper |-> w] :
        c \in ContainerChoices, o \in OffscreenChoices, m \in MetaChoices,
        g \in OgPriceChoices, oi \in {"", "https://img/og"}, li \in {"", "https://img/link"},
        l \in LandingChoices, w \in WrapperChoices }

InitSoup ==
    /\ AmzIdle
    /\ McIdle
    /\ PpIdle
    /\ SsIdle
    /\ sp_soup \in SoupChoices
    /\ sp_read = FALSE
    /\ sp_price = <<>>
    /\ sp_image = ""

\* price = extract_price_from_soup_amzn(soup); image = extract_image_from_soup_amzn(soup)
ReadSoup ==
    /\ ~sp_read
    /\ sp_read' = TRUE
    /\ sp_price' = extract_price_from_soup_amzn(sp_soup)
    /\ sp_image' = extract_image_from_soup_amzn(sp_soup)
    /\ UNCHANGED sp_soup
    /\ UNCHANGED <<amzVars, mcVars, ppVars, ssVars>>

NextSoup == ReadSoup

SpecSoup == InitSoup /\ [][NextSoup]_vars

(* ------------------------------------------------------------------ *)
(* _pick_prices on its own                                              *)
(* ------------------------------------------------------------------ *)
MaxCands == 3
MaxPickCalls == 2

Cand(s, n, ctx) == [val |-> [s |-> s, n |-> n], ctx |-> ctx]

\* (val, ctx, src) triples that _collect_price_candidates can deliver
CandPool ==
    { Cand("$40", 4000, <<"was", "$40">>),
      Cand("$25", 2500, <<"now", "$25">>),
      Cand("$60", 6000, <<"Your", "price", "$60">>),
      Cand("$40.00", 4000, <<"$40.00">>),
      Cand("$40", 4000, <<"jsonld", "offers">>),
      Cand("", -100, <<"jsonld", "offers">>),
      Cand("$25", 2500, <<"was", "$40", "now", "$25">>) }

\* the candidate lists in another order
Perms(cs) ==
    { [k \in 1..Len(cs) |-> cs[f[k]]] :
        f \in { g \in [1..Len(cs) -> 1..Len(cs)] : \A i, j \in 1..Len(cs) : g[i] = g[j] => i = j } }

\* the (cur, ret) pair as the texts returned
Returned(pr) == [cur |-> pr.cur.s, ret |-> pr.ret.s]

InitPrices ==
    /\ AmzIdle
    /\ McIdle
    /\ SpIdle
    /\ SsIdle
    /\ pp_cands \in UNION { [1..n -> CandPool] : n \in 0..MaxCands }
    /\ pp_calls = 0
    /\ pp_first = NoPrices
    /\ pp_out = NoPrices

\* a call of _pick_prices with the candidates in some order
CallPickPrices ==
    /\ pp_calls < MaxPickCalls
    /\ \E cs \in (IF pp_calls = 0 THEN {pp_cands} ELSE Perms(pp_cands)) :
         \E r \in {Returned(pick_prices(cs))} :
            /\ pp_cands' = cs
            /\ pp_out' = r
            /\ pp_first' = IF pp_calls = 0 THEN r ELSE pp_first
    /\ pp_calls' = pp_calls + 1
    /\ UNCHANGED <<amzVars, mcVars, spVars, ssVars>>

NextPrices == CallPickPrices

SpecPrices == InitPrices /\ [][NextPrices]_vars

(* ------------------------------------------------------------------ *)
(* Saved runs and the session: one action per script run                *)
(* ------------------------------------------------------------------ *)
MaxRuns == 2
MaxFetches == 2
MaxEdits == 1

\* the texts typed into the Rename box
NewNames == {"", "n1"}

\* list_saved_runs: the runs whose meta.json and data.csv both exist
list_saved_runs(store) ==
    { id \in DOMAIN store : store[id].meta.set /\ store[id].data.set }

\* the store with the files of run id replaced by e
Put(store, id, e) ==
    [x \in DOMAIN store \cup {id} |-> IF x = id THEN e ELSE store[x]]

\* save_run: data.csv is written, then meta["updated_at"] is set, which
\* raises when meta is None, then meta.json is written
save_run(store, id, df, meta) ==
    IF meta.set
    THEN [store |-> Put(store, id, [meta |-> meta, data |-> df]), raised |-> FALSE]
    ELSE [store |-> Put(store, id, [meta |-> IF id \in DOMAIN store THEN store[id].meta
                                             ELSE NoneMeta,
                                    data |-> df]),
          raised |-> TRUE]

\* shutil.rmtree(_run_path(id), ignore_errors=True)
rmtree(store, id) == [x \in DOMAIN store \ {id} |-> store[x]]

\* the session and the store at the start of a script run
Cur ==
    [store |-> ss_store, results |-> ss_results, run_id |-> ss_run_id, meta |-> ss_meta,
     raised |-> FALSE]

\* the session s after save_run(id, df, meta)
Saved(s, id, df, meta) ==
    [s EXCEPT !.store = save_run(s.store, id, df, meta).store,
              !.raised = save_run(s.store, id, df, meta).raised]

\* the rest of the script once the buttons are handled: the results UI
\* runs when there are rows and ends with maybe_autosave()
ResultsUI(s, autosave) ==
    IF s.raised \/ ~s.results.set \/ s.results.empty THEN s
    ELSE IF autosave /\ s.run_id # 0
         THEN Saved(s, s.run_id, s.results, s.meta)
    ELSE s

\* the session and the store as the script run leaves them
Commit(s) ==
    /\ ss_store' = s.store
    /\ ss_results' = s.results
    /\ ss_run_id' = s.run_id
    /\ ss_meta' = s.meta
    /\ ss_raised' = s.raised

InitSession ==
    /\ AmzIdle
    /\ McIdle
    /\ PpIdle
    /\ SpIdle
    /\ SsIdle

\* the Autosave edits box is ticked or cleared
ToggleAutosave ==
    /\ ss_autosave' = ~ss_autosave
    /\ Commit(ResultsUI(Cur, ~ss_autosave))
    /\ UNCHANGED <<ss_uuids, ss_fetches, ss_deleted>>
    /\ UNCHANGED <<amzVars, mcVars, ppVars, spVars>>

\* sidebar Load on the selected run
Load ==
    /\ \E sel \in list_saved_runs(ss_store) :
         Commit(ResultsUI([Cur EXCEPT !.results = ss_store[sel].data, !.run_id = sel,
                                      !.meta = ss_store[sel].meta], ss_autosave))
    /\ UNCHANGED <<ss_autosave, ss_uuids, ss_fetches, ss_deleted>>
    /\ UNCHANGED <<amzVars, mcVars, ppVars, spVars>>

\* sidebar Save: shown when runs are listed, enabled when results is set
SidebarSave ==
    /\ list_saved_runs(ss_store) # {}
    /\ ss_results.set
    /\ Commit(ResultsUI(IF ss_run_id # 0
                         THEN Saved(Cur, ss_run_id, ss_results, ss_meta)
                         ELSE Cur, ss_autosave))
    /\ ss_deleted' = ss_deleted \ {ss_run_id}
    /\ UNCHANGED <<ss_autosave, ss_uuids, ss_fetches>>
    /\ UNCHANGED <<amzVars, mcVars, ppVars, spVars>>

\* the session after Apply on run sel with the text new_name: the run is
\* loaded, renamed and saved, then st.rerun() runs the script once more
apply_rename(s, sel, new_name, autosave) ==
    ResultsUI(Saved(s, sel, s.store[sel].data,
                    [s.store[sel].meta EXCEPT
                       !.name = IF new_name # "" THEN new_name ELSE @]),
              autosave)

\* sidebar Rename, Apply
ApplyRename ==
    /\ \E sel \in list_saved_runs(ss_store), new_name \in NewNames :
         Commit(apply_rename(Cur, sel, new_name, ss_autosave))
    /\ UNCHANGED <<ss_autosave, ss_uuids, ss_fetches, ss_deleted>>
    /\ UNCHANGED <<amzVars, mcVars, ppVars, spVars>>

\* sidebar Delete: rmtree of the selected run, then st.rerun()
Delete ==
    /\ \E sel \in list_saved_runs(ss_store) :
         /\ Commit(ResultsUI([Cur EXCEPT !.store = rmtree(ss_store, sel)], ss_autosave))
         /\ ss_deleted' = ss_deleted \cup {sel}
    /\ UNCHANGED <<ss_autosave, ss_uuids, ss_fetches>>
    /\ UNCHANGED <<amzVars, mcVars, ppVars, spVars>>

\* a Fetch Top 20 that leaves current_run_id and current_meta as they are
FetchPressed_keepsrun ==
    /\ ss_fetches < MaxFetches
    /\ ss_fetches' = ss_fetches + 1
    /\ \E empty \in BOOLEAN :
         Commit(ResultsUI([Cur EXCEPT !.results = [set |-> TRUE, empty |-> empty,
                                                   fetch |-> ss_fetches + 1, edits |-> 0]],
                          ss_autosave))
    /\ UNCHANGED <<ss_autosave, ss_uuids, ss_deleted>>
    /\ UNCHANGED <<amzVars, mcVars, ppVars, spVars>>

\* Fetch Top 20: the new results, with rows or without, replace the old
\* ones and current_run_id and current_meta are cleared
FetchPressed ==
    /\ ss_fetches < MaxFetches
    /\ ss_fetches' = ss_fetches + 1
    /\ \E empty \in BOOLEAN :
         Commit(ResultsUI([Cur EXCEPT !.results = [set |-> TRUE, empty |-> empty,
                                                   fetch |-> ss_fetches + 1, edits |-> 0],
                                      !.run_id = 0, !.meta = NoneMeta], ss_autosave))
    /\ UNCHANGED <<ss_autosave, ss_uuids, ss_deleted>>
    /\ UNCHANGED <<amzVars, mcVars, ppVars, spVars>>

\* Save as New: results.iloc[0] raises on results without rows; otherwise
\* a new run id, save_run, the session points at the new run, st.rerun()
SaveAsNew ==
    /\ ss_results.set
    /\ ss_uuids < MaxRuns
    /\ ss_uuids' = ss_uuids + 1
    /\ IF ss_results.empty
       THEN Commit([Cur EXCEPT !.raised = TRUE])
       ELSE Commit(ResultsUI([Saved(Cur, ss_uuids + 1, ss_results,
                                    [set |-> TRUE, name |-> "desc"])
                                EXCEPT !.run_id = ss_uuids + 1,
                                       !.meta = [set |-> TRUE, name |-> "desc"]],
                             ss_autosave))
    /\ ss_deleted' = ss_deleted \ {ss_uuids + 1}
    /\ UNCHANGED <<ss_autosave, ss_fetches>>
    /\ UNCHANGED <<amzVars, mcVars, ppVars, spVars>>

\* Save Changes: enabled when results and current_run_id are set
SaveChanges ==
    /\ ss_results.set
    /\ ss_run_id # 0
    /\ Commit(ResultsUI(Saved(Cur, ss_run_id, ss_results, ss_meta), ss_autosave))
    /\ ss_deleted' = ss_deleted \ {ss_run_id}
    /\ UNCHANGED <<ss_autosave, ss_uuids, ss_fetches>>
    /\ UNCHANGED <<amzVars, mcVars, ppVars, spVars>>

\* a manual field of a row is edited: the results UI stores the data and
\* ends with maybe_autosave()
EditRow ==
    /\ ss_results.set
    /\ ~ss_results.empty
    /\ ss_results.edits < MaxEdits
    /\ Commit(ResultsUI([Cur EXCEPT !.results.edits = @ + 1], ss_autosave))
    /\ UNCHANGED <<ss_autosave, ss_uuids, ss_fetches, ss_deleted>>
    /\ UNCHANGED <<amzVars, mcVars, ppVars, spVars>>

NextSession ==
    \/ ToggleAutosave
    \/ Load
    \/ SidebarSave
    \/ ApplyRename
    \/ Delete
    \/ FetchPressed
    \/ SaveAsNew
    \/ SaveChanges
    \/ EditRow

SpecSession == InitSession /\ [][NextSession]_vars

(* ------------------------------------------------------------------ *)
(* Properties of the catalog matcher                                    *)
(* ------------------------------------------------------------------ *)
\* the candidate links of the last call, and those whose request worked
LastQs == NoSpaces(StripText(mc_in.q))
LastLinks == CandLinks(SearchResults(LastQs), {})
RECURSIVE Without(_, _, _)
Without(links, k, failing) ==
    IF k > Len(links) THEN <<>>
    ELSE (IF k \in failing THEN <<>> ELSE <<links[k]>>) \o Without(links, k + 1, failing)

\* the last call ran the body and some request of it failed
SomeFailure == ~mc_in.hit /\ (~mc_in.searchOk \/ mc_in.failing # {})

C10_NoServiceLinks ==
    \A k \in 1..Len(mc_out) : ~SERVICE_PAT(mc_out[k].MCURL.path)

\* a call that returned candidates from a search page that lists
\* /product/battery-replacement-9000
C10_Witness ==
    /\ mc_calls > 0
    /\ ~mc_in.hit
    /\ mc_out # <<>>
    /\ \E k \in 1..Len(SearchResults(LastQs)) :
          SearchResults(LastQs)[k].path =
              << <<"product">>, <<"battery", "replacement", "9000">> >>

(* ------------------------------------------------------------------ *)
(* Properties of the ranking                                            *)
(* ------------------------------------------------------------------ *)
\* the candidates the last call parsed, before the ranking
LastParsed == ParseAll(LastLinks, 1, mc_in.failing, LastQs).parsed

\* p is an exact match of the last call's query
LastExact(p) == NumericQuery(LastQs) /\ p.detected_sku = LastQs[1]

\* the last call ran the body up to the ranking
LastRanked == mc_calls > 0 /\ ~mc_in.hit /\ mc_in.searchOk /\ LastQs # <<>>

C12_RankedOutput ==
    mc_calls > 0 =>
        /\ Len(mc_out) <= mc_in.limit
        /\ \A k \in 1..Len(mc_out) :
              ~LastExact(mc_out[k]) => 100 * mc_out[k].score.n >= 12 * mc_out[k].score.d
        /\ \A i, j \in 1..Len(mc_out) :
              (i < j /\ ~LastExact(mc_out[i]) /\ ~LastExact(mc_out[j]))
                  => mc_out[i].score.n * mc_out[j].score.d
                         >= mc_out[j].score.n * mc_out[i].score.d

\* a call that parsed a candidate below the minimum score, parsed two
\* others in rising order of score, and returned these two
C12_Witness ==
    /\ LastRanked
    /\ ~NumericQuery(LastQs)
    /\ Len(mc_out) >= 2
    /\ \E k \in 1..Len(LastParsed) : ~ScoreKept(LastParsed[k].score)
    /\ \E i, j \in 1..Len(LastParsed) :
          /\ i < j
          /\ ScoreKept(LastParsed[i].score)
          /\ ScoreGreater(LastParsed[j].score, LastParsed[i].score)

(* ------------------------------------------------------------------ *)
(* Properties of the price selection                                    *)
(* ------------------------------------------------------------------ *)
\* C13: _pick_prices returns the same (current, list) pair for the same
\* candidates in any order
C13_OrderIndependent == pp_calls > 0 => pp_out = pp_first

\* "was $40" and "now $25" in either order give current $25 and list $40
C13_WasNow ==
    (pp_calls > 0 /\ Len(pp_cands) = 2
       /\ Range(pp_cands) = {Cand("$40", 4000, <<"was", "$40">>),
                             Cand("$25", 2500, <<"now", "$25">>)})
        => pp_out = [cur |-> "$25", ret |-> "$40"]

\* to_num of a returned text: its value in cents, None (-1) when float()
\* raises
to_num(s) == IF s = "" THEN -1 ELSE (CHOOSE c \in CandPool : c.val.s = s).val.n

\* C14: when the current and the list price returned both parse as
\* numbers, the current price is not greater than the list price
C14_CurrentNotAboveList ==
    (pp_calls > 0 /\ to_num(pp_out.cur) # -1 /\ to_num(pp_out.ret) # -1)
        => to_num(pp_out.cur) <= to_num(pp_out.ret)

\* a call whose current bucket held $60 and whose list bucket held $40:
\* the pair came back swapped
C14_Witness ==
    /\ pp_calls > 0
    /\ Cand("$60", 6000, <<"Your", "price", "$60">>) \in Range(pp_cands)
    /\ Cand("$40", 4000, <<"was", "$40">>) \in Range(pp_cands)
    /\ pp_out = [cur |-> "$40", ret |-> "$60"]

(* ------------------------------------------------------------------ *)
(* Properties of the request spacing                                    *)
(* ------------------------------------------------------------------ *)
\* C15: within a run no request to the marketplace host is sent right
\* after another request, without a delay between the two
C15_Spaced == ~back_to_back

\* the part of C15 about the detail pages: when the handler is back at the
\* head of the item loop after a row, the last network event is a sleep
C15_DelayAfterDetail == (pc = "rows" /\ idx > 0) => last = "sleep"

(* ------------------------------------------------------------------ *)
(* Properties of the cache                                              *)
(* ------------------------------------------------------------------ *)
\* the results stored for a query text less than ttl seconds ago
FreshForText(q) == { e \in mc_cache : e.key.q = q /\ mc_now - e.at < ttl }

\* the results stored for the arguments of a call less than ttl seconds ago
FreshForArgs(q, limit, debug) ==
    { e \in FreshForText(q) : e.key.limit = limit /\ e.key.debug = debug }

\* C16 as stated: a call whose query text was fetched inside the window
\* returns that result and sends no request
C16_MemoByText ==
    [][ (mc_calls' = mc_calls + 1 /\ FreshForText(mc_in'.q) # {})
          => /\ mc_requests' = 0
             /\ \E e \in FreshForText(mc_in'.q) : mc_out' = e.out ]_vars

\* C16: a call whose query text, limit and debug flag were fetched inside
\* the window returns that result and sends no request; any other call
\* runs the body again, which sends the search request unless the text is
\* blank
C16_MemoByArguments ==
    [][ mc_calls' = mc_calls + 1
          => IF FreshForArgs(mc_in'.q, mc_in'.limit, mc_in'.debug) # {}
             THEN /\ mc_requests' = 0
                  /\ \E e \in FreshForArgs(mc_in'.q, mc_in'.limit, mc_in'.debug) :
                        mc_out' = e.out
             ELSE /\ ~mc_in'.hit
                  /\ NoSpaces(StripText(mc_in'.q)) # <<>> => mc_requests' >= 1 ]_vars

\* a second call answered from the cache with a list of candidates
C16_Witness ==
    /\ mc_calls = 2
    /\ mc_in.hit
    /\ mc_requests = 0
    /\ mc_out # <<>>

\* a second call with the arguments of the first, made after the window,
\* that sent requests again
C16_WitnessExpired ==
    /\ mc_calls = 2
    /\ mc_now >= ttl
    /\ ~mc_in.hit
    /\ mc_requests > 0
    /\ \A e \in mc_cache : e.key = [q |-> mc_in.q, limit |-> mc_in.limit, debug |-> mc_in.debug]

(* ------------------------------------------------------------------ *)
(* Properties of the two extractors                                     *)
(* ------------------------------------------------------------------ *)
\* C17: a price returned by extract_price_from_soup_amzn is empty or
\* begins with "$"
C17_LeadingDollar == sp_read => (sp_price = <<>> \/ Head(sp_price) = "$")

\* the image of a page when the wrapper image is read with the attribute
\* priority of the landing image
SamePriorityImage(soup) ==
    IF soup.ogImage # "" THEN soup.ogImage
    ELSE IF soup.linkImage # "" THEN soup.linkImage
    ELSE IF soup.landing # <<>> /\ LandingImage(soup.landing[1]) # ""
         THEN LandingImage(soup.landing[1])
    ELSE IF soup.wrapper # <<>> THEN LandingImage(soup.wrapper[1])
    ELSE ""

\* C19: the image is the first non-empty one of open-graph image,
\* rel=image_src link, landing image and wrapper image, the wrapper image
\* read with the attribute priority of the landing image
C19_SamePriority == sp_read => sp_image = SamePriorityImage(sp_soup)

\* the part of C19 about the order of the sources: an earlier source that
\* is not empty wins
C19_SourceOrder ==
    sp_read =>
        /\ sp_soup.ogImage # "" => sp_image = sp_soup.ogImage
        /\ (sp_soup.ogImage = "" /\ sp_soup.linkImage # "") => sp_image = sp_soup.linkImage
        /\ (sp_soup.ogImage = "" /\ sp_soup.linkImage = "" /\ sp_soup.landing # <<>>
              /\ LandingImage(sp_soup.landing[1]) # "")
               => sp_image = LandingImage(sp_soup.landing[1])

(* ------------------------------------------------------------------ *)
(* Properties of the product-page test                                  *)
(* ------------------------------------------------------------------ *)
\* the page has structured product data, a SKU indicator or a price
\* container
IsProductPage(pg) ==
    \/ pg.ld # <<>>
    \/ pg.skuMeta # ""
    \/ pg.textSku # ""
    \/ pg.cands # <<>>

\* C18: every candidate returned comes from a page that has structured
\* product data, a SKU indicator or a price container
C18_OnlyProductPages ==
    \A k \in 1..Len(mc_out) : IsProductPage(McPage(mc_out[k].MCURL))

\* the part of C18 that the code keeps: no candidate comes from a page
\* without product schema and SKU whose <title> names a service, a repair
\* or a battery, nor from a page without SKU and title
C18_ServiceTitleDropped ==
    \A k \in 1..Len(mc_out) :
        LET pg == McPage(mc_out[k].MCURL)
        IN /\ (pg.ld = <<>> /\ pg.skuMeta = "") => ~ServiceTitle(pg.titleTag)
           /\ mc_out[k].detected_sku # "" \/ mc_out[k].MCTitle # <<>>

(* ------------------------------------------------------------------ *)
(* Properties of the saved runs                                         *)
(* ------------------------------------------------------------------ *)
\* C20: a run deleted with the sidebar Delete is not in the store again
\* unless Save, Save Changes or Save as New has saved it since
C20_DeletedStaysDeleted == \A id \in ss_deleted : id \notin DOMAIN ss_store

\* C21: when Apply has renamed a saved run to a non-empty name and the
\* rerun it starts has finished, the stored name of the run is the new
\* name, also when the run is the currently loaded one
C21_RenameSticks ==
    \A sel \in list_saved_runs(ss_store), new_name \in NewNames \ {""} :
        apply_rename(Cur, sel, new_name, ss_autosave).store[sel].meta.name = new_name

\* C22: whenever current_run_id is set, current_meta and results are set,
\* and every run of the store has its metadata; the results of a fetch are
\* never written into a run that holds the results of another fetch
C22_RunIdImpliesMeta ==
    /\ [](ss_run_id # 0 => (ss_meta.set /\ ss_results.set))
    /\ [](\A id \in DOMAIN ss_store : ss_store[id].meta.set /\ ss_store[id].data.set)
    /\ [][\A id \in DOMAIN ss_store \cap DOMAIN ss_store' :
             ss_store'[id].data.fetch = ss_store[id].data.fetch]_vars

\* results of a second fetch with rows are in the session, autosave is on,
\* and the run saved from the first fetch still holds the first results
C22_Witness ==
    /\ ss_autosave
    /\ ss_run_id = 0
    /\ ss_results.set
    /\ ~ss_results.empty
    /\ ss_results.fetch = 2
    /\ \E id \in DOMAIN ss_store : ss_store[id].data.fetch = 1

====
